---- MODULE Spec2Model ----
(***************************************************************************)
(* Lead Lifecycle Scheduling Engine of the KBJU lead-qualification bot.    *)
(*                                                                         *)
(* The sub-systems share one set of variables, each with its own           *)
(* specification (the variables of the other sub-systems stay untouched):  *)
(*   SpecCas    update_drip_stage called by concurrent callers             *)
(*   SpecDrip   the drip follow-up scanner and the user actions around it  *)
(*   SpecTimer  TimerService.active_timers and _delayed_offer_tasks        *)
(*   SpecHot    update_user_status and the hot-lead notification marker    *)
(*   SpecSend   WebhookService.send_lead_to_n8n / send_with_retry          *)
(*   SpecEval   _load_candidates / _process_snapshot for one users row      *)
(*   SpecSvc    DripFollowupService.start / stop and the _runner loops      *)
(*   SpecEngine the scanner and the calculated timers side by side          *)
(*   SpecGate   ensure_subscription_and_continue                            *)
(***************************************************************************)
EXTENDS Integers, Sequences, FiniteSets

\* ------------------------------------------------------------------ bounds
NumLeads == 2
MaxTick == 1
MaxScans == 2
MaxUserActs == 1
MaxTasks == 2
MaxHotCalls == 2
MaxSends == 2
MaxStarts == 2
MaxStops == 2
MaxBatch == 2
MaxGateCalls == 2

Leads == 1..NumLeads
\* C1 is about two concurrent calls.
Callers == {1, 2}
\* C7 is about two overlapping update_user_status calls.
HotCallers == {1, 2}

\* ------------------------------------------------------------ lead store
\* app/database/models.py: the users table (the columns the engine touches).
VARIABLES
    users,      \* [Leads -> row]: the persisted Lead rows
    now         \* datetime.utcnow(), in seconds

\* --------------------------------------------------- update_drip_stage
VARIABLES
    calls,      \* [Callers -> call frame of an update_drip_stage coroutine]
    stage0      \* history: drip_stage of every lead in the initial state

\* ------------------------------------------------ drip follow-up scanner
VARIABLES
    scan,       \* the frame of DripFollowupService._runner / _process_snapshot
    tick,       \* index of the clock's instant
    userActs,   \* number of user actions taken so far
    iterStart,  \* history: drip_stage of every lead when the iteration loaded
    resetSince, \* history: the lead's stage was reset since that load
    lastWrite,  \* history: the stage write the scanner has just made
    lastSent,   \* history, kept under SpecDripLog: [lead -> the follow-up
                \* last delivered to it since its stage was last reset, as
                \* <<cohort, stage>>]
    failed      \* history: [Leads -> the latest send that failed, for an unchanged row]

\* ---------------------------------------------------------- deferred tasks
VARIABLES
    tasks,                  \* the asyncio tasks that have not ended, by slot
    active_timers,          \* TimerService.active_timers: user_id -> task (0: no key)
    _delayed_offer_tasks,   \* kbju._delayed_offer_tasks: user_id -> task (0: no key)
    thePurpose,             \* the purpose whose tasks this behaviour follows
    timerError              \* history: the lead whose calculated timer the latest
                            \* step of a task ended on an exception (0: none)

\* ------------------------------------------------- hot-lead notification
VARIABLES
    hot,        \* [HotCallers -> frame of an update_user_status coroutine]
    hotCalls,   \* number of update_user_status calls entered so far
    hotNotes,   \* history: [Leads -> "new hot lead" notifications sent]
    hotOverlap  \* history: [Leads -> a call began while another was running]

\* ------------------------------------------------------- webhook delivery
VARIABLES
    N8N_WEBHOOK_URL,    \* config.N8N_WEBHOOK_URL ("" when the variable is unset)
    send,               \* the frame of send_lead_to_n8n / send_with_retry
    sends,              \* number of Send calls entered so far
    success_count,      \* WebhookMetrics.success_count
    error_count         \* WebhookMetrics.error_count

\* ------------------------------------------- evaluation of one candidate
VARIABLES
    ev          \* one users row, the clock, and what the scanner decides for it

\* ------------------------------------------- the scanner as a service
VARIABLES
    _task,          \* DripFollowupService._task: a runner, 0 for None
    _stop_event,    \* DripFollowupService._stop_event: an event, 0 for None
    _bot,           \* DripFollowupService._bot is set
    events,         \* [event -> asyncio.Event.is_set()]
    runners,        \* [runner -> the frame of its _runner task]
    stops,          \* [caller -> the frame of a stop() coroutine]
    starts          \* number of runners start() has created

\* ------------------------------------------------- the subscription gate
VARIABLES
    ALLOW_GATE_FALLBACK_PASS,   \* config.ALLOW_GATE_FALLBACK_PASS
    gating_enabled,             \* what should_gate() returns
    gate,                       \* the frame of ensure_subscription_and_continue
    gateCalls                   \* number of calls made

storeVars == <<users, now>>
casVars == <<calls, stage0>>
dripVars == <<scan, tick, userActs, iterStart, resetSince, lastWrite, lastSent,
             failed>>

timerVars == <<tasks, active_timers, _delayed_offer_tasks, thePurpose, timerError>>

hotVars == <<hot, hotCalls, hotNotes, hotOverlap>>
sendVars == <<N8N_WEBHOOK_URL, send, sends, success_count, error_count>>
evalVars == <<ev>>
svcVars == <<_task, _stop_event, _bot, events, runners, stops, starts>>
gateVars == <<ALLOW_GATE_FALLBACK_PASS, gating_enabled, gate, gateCalls>>

vars == <<storeVars, casVars, dripVars, timerVars, hotVars, sendVars, evalVars, svcVars,
          gateVars>>
\* What an action of one sub-system leaves alone.
notCas == <<dripVars, timerVars, hotVars, sendVars, evalVars, svcVars, gateVars>>
notDrip == <<casVars, timerVars, hotVars, sendVars, evalVars, svcVars, gateVars>>
notTimer == <<casVars, dripVars, hotVars, sendVars, evalVars, svcVars, gateVars>>
notHot == <<casVars, dripVars, timerVars, sendVars, evalVars, svcVars, gateVars>>
notSend == <<casVars, dripVars, timerVars, hotVars, evalVars, svcVars, gateVars>>
notEval == <<casVars, dripVars, timerVars, hotVars, sendVars, svcVars, gateVars>>
notSvc == <<casVars, dripVars, timerVars, hotVars, sendVars, evalVars, gateVars>>
notGate == <<casVars, dripVars, timerVars, hotVars, sendVars, evalVars, svcVars>>

\* The funnel_status values of app/constants.py FUNNEL_STATUSES.
Statuses == {"new", "calculated", "hotlead_consultation", "hotlead_delayed",
             "coldlead_delayed", "coldlead"}

NewUser(t) ==
    [exists |-> TRUE, funnel_status |-> "new", has_started |-> FALSE,
     drip_stage |-> 0, last_activity_at |-> t, hot_lead_notified_at |-> FALSE]

Max2(a, b) == IF a >= b THEN a ELSE b
Min2(a, b) == IF a <= b THEN a ELSE b

\* max(0, min(3, int(x)))
ClampStage(x) == Max2(0, Min2(3, x))

\* update_drip_stage, the statement it executes: UPDATE users SET
\* drip_stage = target WHERE tg_id = .. AND drip_stage = current; the result
\* is <<rowcount > 0, the row afterwards>>.
CasUpdate_NoWhere(row, current_stage, target_stage) ==
    IF row.exists
    THEN <<TRUE, [row EXCEPT !.drip_stage = target_stage]>>
    ELSE <<FALSE, row>>

\* CasUpdate with the UPDATE also marking the lead as a delayed cold lead.
CasUpdate_MarkCold(row, current_stage, target_stage) ==
    IF row.exists /\ row.drip_stage = current_stage
    THEN <<TRUE, [row EXCEPT !.drip_stage = target_stage,
                             !.funnel_status = "coldlead_delayed"]>>
    ELSE <<FALSE, row>>

CasUpdate(row, current_stage, target_stage) ==
    IF row.exists /\ row.drip_stage = current_stage
    THEN <<TRUE, [row EXCEPT !.drip_stage = target_stage]>>
    ELSE <<FALSE, row>>

\* update_drip_stage, the checks before the session is opened: TRUE when the
\* UPDATE is attempted at all.
StageArgsOk(from_stage, to_stage) ==
    /\ ~(ClampStage(to_stage) <= ClampStage(from_stage))
    /\ ~(ClampStage(to_stage) - ClampStage(from_stage) # 1)

StageArgs == -1..4

IdleCall == [pc |-> "idle", tg_id |-> 0, current_stage |-> 0,
             target_stage |-> 0, result |-> FALSE]

\* A caller enters update_drip_stage(tg_id, from_stage=.., to_stage=..): the
\* arguments are clamped and checked; a rejected call returns False at once,
\* otherwise the coroutine is suspended before its UPDATE.
UdsCall(c, l, from_stage, to_stage) ==
    /\ calls[c].pc = "idle"
    /\ calls' = [calls EXCEPT ![c] =
            [pc |-> IF StageArgsOk(from_stage, to_stage) THEN "update" ELSE "done",
             tg_id |-> l,
             current_stage |-> ClampStage(from_stage),
             target_stage |-> ClampStage(to_stage),
             result |-> FALSE]]
    /\ UNCHANGED <<users, now, stage0, notCas>>

\* The UPDATE and its commit or rollback: one atomic statement of the store.
UdsExecute(c) ==
    /\ calls[c].pc = "update"
    /\ LET l == calls[c].tg_id
           r == CasUpdate(users[l], calls[c].current_stage, calls[c].target_stage)
       IN  /\ users' = [users EXCEPT ![l] = r[2]]
           /\ calls' = [calls EXCEPT ![c].pc = "done", ![c].result = r[1]]
    /\ UNCHANGED <<now, stage0, notCas>>

\* ------------------------------------------------ drip follow-up scanner
\* config.py: DRIP_STAGE_1_MIN, DRIP_STAGE_2_MIN, DRIP_STAGE_3_MIN (minutes),
\* which drip_followups.py imports as DRIP_24H_MIN, DRIP_48H_MIN, DRIP_72H_MIN.
DRIP_24H_MIN == 60
DRIP_48H_MIN == 1440
DRIP_72H_MIN == 2880

\* The instants the clock is read at, in seconds after the start: the first
\* threshold to the second, the later thresholds as they are met.
Instants ==
    {60 * DRIP_24H_MIN - 1, 60 * DRIP_24H_MIN, 60 * DRIP_48H_MIN, 60 * DRIP_72H_MIN}

\* _determine_next_stage; 0 stands for None. The code compares
\* elapsed_minutes = elapsed_seconds / 60.0 with a threshold in minutes,
\* which is elapsed_seconds >= 60 * threshold.
_determine_next_stage_Strict(current_stage, elapsed_seconds) ==
    LET cs == IF current_stage < 0 THEN 0 ELSE current_stage
    IN  IF cs = 0 /\ elapsed_seconds > 60 * DRIP_24H_MIN THEN 1
        ELSE IF cs <= 1 /\ elapsed_seconds > 60 * DRIP_48H_MIN THEN 2
        ELSE IF cs <= 2 /\ elapsed_seconds > 60 * DRIP_72H_MIN THEN 3
        ELSE 0

_determine_next_stage(current_stage, elapsed_seconds) ==
    LET cs == IF current_stage < 0 THEN 0 ELSE current_stage
    IN  IF cs = 0 /\ elapsed_seconds >= 60 * DRIP_24H_MIN THEN 1
        ELSE IF cs <= 1 /\ elapsed_seconds >= 60 * DRIP_48H_MIN THEN 2
        ELSE IF cs <= 2 /\ elapsed_seconds >= 60 * DRIP_72H_MIN THEN 3
        ELSE 0

\* _is_finished_status without the test for the hotlead statuses.
_is_finished_status_NoHot(status) ==
    \/ status = "calculated"
    \/ status = "coldlead"

\* _is_finished_status (the stored statuses are already normalized).
_is_finished_status(status) ==
    \/ status = "calculated"
    \/ status \in {"hotlead_consultation", "hotlead_delayed"}
    \/ status = "coldlead"

_COHORTS == <<"stalled", "tips">>

\* _cohort_membership with the tips cohort open to every unfinished status.
_cohort_membership_Overlap(snapshot, cohort) ==
    IF cohort = "stalled"
    THEN /\ snapshot.has_started
         /\ ~_is_finished_status(snapshot.funnel_status)
         /\ snapshot.funnel_status # "coldlead_delayed"
    ELSE IF cohort = "tips"
    THEN ~_is_finished_status(snapshot.funnel_status)
    ELSE FALSE

\* _cohort_membership: the eligible flag.
_cohort_membership(snapshot, cohort) ==
    IF cohort = "stalled"
    THEN /\ snapshot.has_started
         /\ ~_is_finished_status(snapshot.funnel_status)
         /\ snapshot.funnel_status # "coldlead_delayed"
    ELSE IF cohort = "tips"
    THEN snapshot.funnel_status = "coldlead_delayed"
    ELSE FALSE

\* _load_candidates: the snapshot of one row. The User model of src has the
\* one column drip_stage; both per-cohort stages of the snapshot are read
\* from it.
Snapshot(l, row) ==
    [tg_id |-> l, funnel_status |-> row.funnel_status,
     activity_at |-> row.last_activity_at,
     drip_stage_stalled |-> row.drip_stage, drip_stage_tips |-> row.drip_stage,
     has_started |-> row.has_started]

RECURSIVE LoadFrom(_, _)
\* _load_candidates: the snapshots of the rows with a stage below 3, for the
\* ids from l upwards.
LoadFrom(l, rows) ==
    IF l > NumLeads THEN <<>>
    ELSE IF rows[l].exists /\ rows[l].drip_stage < 3
         THEN <<Snapshot(l, rows[l])>> \o LoadFrom(l + 1, rows)
         ELSE LoadFrom(l + 1, rows)

SnapStage(snapshot, cohort) ==
    IF cohort = "stalled" THEN snapshot.drip_stage_stalled
    ELSE snapshot.drip_stage_tips

\* _process_snapshot, lines 382-419 for one cohort: the stage_to_set the
\* cohort goes to the stage guard with, 0 when the cohort is skipped.
CohortTarget(snapshot, cohort, elapsed_seconds) ==
    LET current_stage == SnapStage(snapshot, cohort)
        stage_to_set == _determine_next_stage(current_stage, elapsed_seconds)
    IN  IF ~_cohort_membership(snapshot, cohort) THEN 0
        ELSE IF current_stage >= 3 THEN 0
        ELSE IF stage_to_set = 0 \/ stage_to_set <= current_stage THEN 0
        ELSE stage_to_set

\* The first cohort at index k or later that reaches the stage guard, 0 when
\* the loop over _COHORTS ends without one.
NextCohort(snapshot, k, elapsed_seconds) ==
    IF \E j \in k..Len(_COHORTS) :
           CohortTarget(snapshot, _COHORTS[j], elapsed_seconds) # 0
    THEN CHOOSE j \in k..Len(_COHORTS) :
           /\ CohortTarget(snapshot, _COHORTS[j], elapsed_seconds) # 0
           /\ \A i \in k..(j - 1) :
                  CohortTarget(snapshot, _COHORTS[i], elapsed_seconds) = 0
    ELSE 0

NoSnapshot == [tg_id |-> 0, funnel_status |-> "new", activity_at |-> 0,
               drip_stage_stalled |-> 0, drip_stage_tips |-> 0,
               has_started |-> FALSE]

\* delivered: what _send_followup found for the cohort in hand (history).
\* missing: the leads of this iteration's batch whose row the stage guard
\* did not find (history). sentTo: the leads a follow-up was delivered to
\* in this iteration (history).
IdleScan == [pc |-> "sleep", queue |-> <<>>, snapshot |-> NoSnapshot,
             k |-> 0, current_stage |-> 0, stage_to_set |-> 0,
             elapsed |-> 0, iteration |-> 0, delivered |-> FALSE,
             missing |-> {}, sentTo |-> {}]

NoWrite == [tg_id |-> 0, from_stage |-> 0, to_stage |-> 0, elapsed |-> 0,
            updated |-> FALSE]

\* No failed send on record for a lead.  failed[l] (history) is the last
\* failed send of a follow-up to lead l whose row has been as the scanner
\* loaded it ever since: a delivery, an activity of the lead or a status
\* write clears it.
NoFailure == [stage_to_set |-> 0]

\* The frame at the stage guard of cohort j of a snapshot.
AtGuard(frame, snapshot, j) ==
    [frame EXCEPT !.pc = "guard", !.snapshot = snapshot, !.k = j,
                  !.delivered = FALSE,
                  !.current_stage = SnapStage(snapshot, _COHORTS[j]),
                  !.stage_to_set =
                      CohortTarget(snapshot, _COHORTS[j], frame.elapsed)]

RECURSIVE NextSnapshot(_, _)
\* _runner, lines 545-579, and _process_snapshot, lines 340-419: the loop
\* over the snapshots runs without an await up to the first stage guard;
\* with no snapshot left the iteration ends and the loop waits for the
\* interval. utcnow is the clock read by _process_snapshot.
NextSnapshot(frame, utcnow) ==
    IF frame.queue = <<>>
    THEN [frame EXCEPT !.pc = "sleep", !.snapshot = NoSnapshot, !.k = 0,
                       !.current_stage = 0, !.stage_to_set = 0, !.elapsed = 0,
                       !.delivered = FALSE]
    ELSE LET snapshot == Head(frame.queue)
             elapsed_seconds == utcnow - snapshot.activity_at
             rest == [frame EXCEPT !.queue = Tail(@), !.elapsed = elapsed_seconds]
             j == IF elapsed_seconds < 0 THEN 0
                  ELSE NextCohort(snapshot, 1, elapsed_seconds)
         IN  IF j = 0 THEN NextSnapshot(rest, utcnow)
             ELSE AtGuard(rest, snapshot, j)

\* The loop over _COHORTS resumes at index k: either the next cohort goes to
\* its stage guard, or _process_snapshot returns to the loop over snapshots.
ResumeCohorts(frame, snapshot, k, utcnow) ==
    LET j == NextCohort(snapshot, k, frame.elapsed)
    IN  IF j = 0 THEN NextSnapshot(frame, utcnow)
        ELSE AtGuard(frame, snapshot, j)

\* _runner, lines 526-546: an iteration starts, loads its candidates and
\* goes through them up to the first await.
ScanLoad ==
    /\ scan.pc = "sleep"
    /\ scan.iteration < MaxScans
    /\ scan' = NextSnapshot([scan EXCEPT !.queue = LoadFrom(1, users),
                                         !.iteration = @ + 1,
                                         !.missing = {}, !.sentTo = {}], now)
    /\ iterStart' = [l \in Leads |-> users[l].drip_stage]
    /\ resetSince' = [l \in Leads |-> FALSE]
    /\ lastWrite' = NoWrite
    /\ UNCHANGED <<storeVars, tick, userActs, failed, lastSent, notDrip>>

\* ScanGuard without the `if not user` of lines 312-313: a row that is gone
\* reads as stage 0.
ScanGuard_NoUserCheck(raises) ==
    /\ scan.pc = "guard"
    /\ LET row == users[scan.snapshot.tg_id]
           cohort == _COHORTS[scan.k]
           drifted ==
               IF row.exists /\ row.drip_stage > SnapStage(scan.snapshot, cohort)
               THEN IF cohort = "stalled"
                    THEN [scan.snapshot EXCEPT !.drip_stage_stalled = row.drip_stage]
                    ELSE [scan.snapshot EXCEPT !.drip_stage_tips = row.drip_stage]
               ELSE scan.snapshot
       IN  scan' = IF raises
                   THEN NextSnapshot([scan EXCEPT !.queue = <<>>], now)
                   ELSE IF row.drip_stage >= scan.stage_to_set
                   THEN ResumeCohorts(scan, drifted, scan.k + 1, now)
                   ELSE [scan EXCEPT !.pc = "send", !.snapshot = drifted]
    /\ lastWrite' = NoWrite
    /\ UNCHANGED <<storeVars, tick, userActs, iterStart, resetSince, failed, lastSent, notDrip>>

\* _ensure_stage_guard and lines 422-435: the row is read again. The read
\* (lines 309-310) is in no try of _ensure_stage_guard or _process_snapshot:
\* when it raises, the exception leaves the loop over the snapshots and is
\* caught by _runner (lines 553-554), which logs it and waits for the next
\* interval; the snapshots still queued are dropped.
ScanGuard(raises) ==
    /\ scan.pc = "guard"
    /\ LET row == users[scan.snapshot.tg_id]
           cohort == _COHORTS[scan.k]
           drifted ==
               IF row.exists /\ row.drip_stage > SnapStage(scan.snapshot, cohort)
               THEN IF cohort = "stalled"
                    THEN [scan.snapshot EXCEPT !.drip_stage_stalled = row.drip_stage]
                    ELSE [scan.snapshot EXCEPT !.drip_stage_tips = row.drip_stage]
               ELSE scan.snapshot
       IN  scan' = IF raises
                   THEN NextSnapshot([scan EXCEPT !.queue = <<>>], now)
                   ELSE IF ~row.exists
                   THEN ResumeCohorts([scan EXCEPT !.missing = @ \cup {scan.snapshot.tg_id}],
                                      drifted, scan.k + 1, now)
                   ELSE IF row.drip_stage >= scan.stage_to_set
                   THEN ResumeCohorts(scan, drifted, scan.k + 1, now)
                   ELSE [scan EXCEPT !.pc = "send", !.snapshot = drifted]
    /\ lastWrite' = NoWrite
    /\ UNCHANGED <<storeVars, tick, userActs, iterStart, resetSince, failed, lastSent, notDrip>>

\* ScanSend going on to the stage write whether or not the message went out.
ScanSend_AdvanceAnyway(delivered) ==
    /\ scan.pc = "send"
    /\ scan' = [scan EXCEPT !.pc = "write", !.delivered = delivered,
                            !.sentTo = IF delivered THEN @ \cup {scan.snapshot.tg_id}
                                       ELSE @]
    /\ failed' = [failed EXCEPT ![scan.snapshot.tg_id] =
            IF delivered THEN NoFailure
            ELSE [stage_to_set |-> scan.stage_to_set]]
    /\ UNCHANGED <<storeVars, tick, userActs, iterStart, resetSince, lastWrite, lastSent,
                   notDrip>>

\* _send_followup, lines 221-271, and _process_snapshot, lines 437-448:
\* delivered is FALSE when no text resolves or bot.send_message raises.
\* logged: the delivery is recorded in lastSent.
ScanSendStep(delivered, logged) ==
    /\ scan.pc = "send"
    /\ scan' = IF delivered
               THEN [scan EXCEPT !.pc = "write", !.delivered = TRUE,
                                 !.sentTo = @ \cup {scan.snapshot.tg_id}]
               ELSE ResumeCohorts(scan, scan.snapshot, scan.k + 1, now)
    /\ failed' = [failed EXCEPT ![scan.snapshot.tg_id] =
            IF delivered \/ Snapshot(scan.snapshot.tg_id, users[scan.snapshot.tg_id]) # scan.snapshot
            THEN NoFailure
            ELSE [stage_to_set |-> scan.stage_to_set]]
    /\ lastSent' = IF delivered /\ logged
                   THEN [lastSent EXCEPT ![scan.snapshot.tg_id] =
                            <<_COHORTS[scan.k], scan.stage_to_set>>]
                   ELSE lastSent
    /\ UNCHANGED <<storeVars, tick, userActs, iterStart, resetSince, lastWrite, notDrip>>

ScanSend(delivered) == ScanSendStep(delivered, FALSE)

\* The same step with the delivery put on record.
ScanSendLogged(delivered) == ScanSendStep(delivered, TRUE)

\* The highest stage whose threshold the elapsed time has reached.
ReachedStage(elapsed_seconds) ==
    IF elapsed_seconds >= 60 * DRIP_72H_MIN THEN 3
    ELSE IF elapsed_seconds >= 60 * DRIP_48H_MIN THEN 2
    ELSE IF elapsed_seconds >= 60 * DRIP_24H_MIN THEN 1
    ELSE 0

\* ScanWrite with the stage set to the highest stage reached, whatever the
\* stored stage.
ScanWrite_CatchUp(raises) ==
    /\ scan.pc = "write"
    /\ LET l == scan.snapshot.tg_id
           cohort == _COHORTS[scan.k]
           ok == ~raises /\ users[l].exists
           advanced ==
               IF cohort = "stalled"
               THEN [scan.snapshot EXCEPT !.drip_stage_stalled = scan.stage_to_set]
               ELSE [scan.snapshot EXCEPT !.drip_stage_tips = scan.stage_to_set]
       IN  /\ users' = IF ok
                       THEN [users EXCEPT ![l].drip_stage =
                                Max2(scan.stage_to_set, ReachedStage(scan.elapsed))]
                       ELSE users
           /\ scan' = ResumeCohorts(scan, advanced, scan.k + 1, now)
           /\ lastWrite' = [tg_id |-> l, from_stage |-> scan.current_stage,
                            to_stage |-> scan.stage_to_set,
                            elapsed |-> scan.elapsed, updated |-> ok]
    /\ UNCHANGED <<now, tick, userActs, iterStart, resetSince, failed, lastSent, notDrip>>

\* _send_followup, lines 282-301, and _process_snapshot, line 440. The call
\* passes cohort= and stage=, which update_drip_stage of requests.py does
\* not accept: the TypeError is caught (raises). The model also covers the
\* call going through, as update_drip_stage(from_stage = the snapshot's
\* stage, to_stage = stage_to_set).
ScanWrite(raises) ==
    /\ scan.pc = "write"
    /\ LET l == scan.snapshot.tg_id
           cohort == _COHORTS[scan.k]
           r == IF ~raises /\ StageArgsOk(scan.current_stage, scan.stage_to_set)
                THEN CasUpdate(users[l], ClampStage(scan.current_stage),
                               ClampStage(scan.stage_to_set))
                ELSE <<FALSE, users[l]>>
           advanced ==
               IF cohort = "stalled"
               THEN [scan.snapshot EXCEPT !.drip_stage_stalled = scan.stage_to_set]
               ELSE [scan.snapshot EXCEPT !.drip_stage_tips = scan.stage_to_set]
       IN  /\ users' = [users EXCEPT ![l] = r[2]]
           /\ scan' = ResumeCohorts(scan, advanced, scan.k + 1, now)
           /\ lastWrite' = [tg_id |-> l, from_stage |-> scan.current_stage,
                            to_stage |-> scan.stage_to_set,
                            elapsed |-> scan.elapsed, updated |-> r[1]]
    /\ UNCHANGED <<now, tick, userActs, iterStart, resetSince, failed, lastSent, notDrip>>

\* set_user for a known user and update_last_activity: the activity time is
\* renewed and a stage other than 0 is reset to 0.
UserActivity(l) ==
    /\ userActs < MaxUserActs
    /\ users[l].exists
    /\ users' = [users EXCEPT ![l].last_activity_at = now, ![l].drip_stage = 0]
    /\ resetSince' = [resetSince EXCEPT ![l] = TRUE]
    /\ userActs' = userActs + 1
    /\ failed' = [failed EXCEPT ![l] = NoFailure]
    /\ lastSent' = [lastSent EXCEPT ![l] = <<>>]
    /\ UNCHANGED <<now, scan, tick, iterStart, lastWrite, notDrip>>

\* update_user_status, lines 167-195: the write of the status.
StatusWrite(l, status) ==
    /\ userActs < MaxUserActs
    /\ users[l].exists
    /\ users' = [users EXCEPT ![l].funnel_status = status,
                              ![l].last_activity_at = now]
    /\ userActs' = userActs + 1
    /\ failed' = [failed EXCEPT ![l] = NoFailure]
    /\ UNCHANGED <<now, scan, tick, iterStart, resetSince, lastWrite, lastSent, notDrip>>

\* delete_user_by_tg_id (requests.py 76-92), the admin's "delete lead",
\* while the scanner is at work: the row is gone.
LeadDeleted(l) ==
    /\ userActs < MaxUserActs
    /\ users[l].exists
    /\ users' = [users EXCEPT ![l] = [NewUser(0) EXCEPT !.exists = FALSE]]
    /\ userActs' = userActs + 1
    /\ failed' = [failed EXCEPT ![l] = NoFailure]
    /\ lastSent' = [lastSent EXCEPT ![l] = <<>>]
    /\ UNCHANGED <<now, scan, tick, iterStart, resetSince, lastWrite, notDrip>>

\* The clock moves on to a later instant.
Tick(instant) ==
    /\ tick < MaxTick
    /\ instant > now
    /\ tick' = tick + 1
    /\ now' = instant
    /\ UNCHANGED <<users, scan, userActs, iterStart, resetSince, lastWrite,
                   failed, lastSent, notDrip>>


\* ---------------------------------------------------------- deferred tasks
\* The two purposes: the calculated-lead timer of TimerService and the
\* delayed offer of kbju.py. Their registries are separate dicts and their
\* tasks share no state, so a behaviour follows the tasks of one purpose,
\* chosen in the initial state.
Purposes == {"calculated", "offer"}

Registry(purpose) ==
    IF purpose = "calculated" THEN active_timers ELSE _delayed_offer_tasks

\* The registry of a purpose becomes reg, the other registry stays.
SetRegistry(purpose, reg) ==
    IF purpose = "calculated"
    THEN active_timers' = reg /\ UNCHANGED _delayed_offer_tasks
    ELSE _delayed_offer_tasks' = reg /\ UNCHANGED active_timers

\* No task in the slot.
NoTask ==
    [user_id |-> 0, pc |-> "free", cancel_pending |-> FALSE,
     was_cancelled |-> FALSE, superseded |-> FALSE, voided |-> FALSE]

\* asyncio.create_task(timer_callback()) / create_task(send_delayed_offer()):
\* a task that has not run yet. cancel_pending: Task.cancel() was called and
\* the CancelledError is not yet thrown into the coroutine. History fields:
\* was_cancelled, superseded (a later Start of the key left the task
\* unfinished and not cancelled), voided (a Cancel of the key left the task
\* unfinished and not cancelled). A cancelled task never sends, so the two
\* are kept for the other tasks only.
NewTask(user_id) == [NoTask EXCEPT !.user_id = user_id, !.pc = "created"]

\* The slots of the unfinished tasks; a task that ends frees its slot.
TaskIds == 1..MaxTasks

FreeSlot == CHOOSE t \in TaskIds : tasks[t].pc = "free" /\
                \A u \in TaskIds : tasks[u].pc = "free" => t <= u

\* Task.cancel().
CancelTask(ts, id) ==
    IF id = 0 THEN ts
    ELSE [ts EXCEPT ![id].cancel_pending = TRUE, ![id].was_cancelled = TRUE]

\* The new task is created and registered; the tasks of the key that are
\* still unfinished and not cancelled are marked superseded.
Replace(ts, purpose, user_id) ==
    /\ tasks' = [t \in TaskIds |->
            IF t = FreeSlot THEN NewTask(user_id)
            ELSE IF /\ ts[t].pc # "free"
                    /\ ts[t].user_id = user_id
                    /\ ~ts[t].was_cancelled
                 THEN [ts[t] EXCEPT !.superseded = TRUE]
                 ELSE ts[t]]
    /\ SetRegistry(purpose, [Registry(purpose) EXCEPT ![user_id] = FreeSlot])

\* TimerService.start_calculated_timer (webhook.py 288-325) and
\* schedule_delayed_offer (kbju.py 213-216): the registered task of the key
\* is cancelled and its entry removed, a new task is created and registered.
\* Neither has an await between the cancel and the registration.
StartTimer(purpose, user_id) ==
    /\ \E t \in TaskIds : tasks[t].pc = "free"
    /\ Replace(CancelTask(tasks, Registry(purpose)[user_id]), purpose, user_id)
    /\ timerError' = 0
    /\ UNCHANGED <<storeVars, thePurpose, notTimer>>

\* TimerService.cancel_timer (webhook.py 331-336) and cancel_delayed_offer
\* (kbju.py 219-222), called by a handler: the registered task of the key,
\* if any, is cancelled and its entry removed.
CancelTimer(purpose, user_id) ==
    /\ LET cancelled == CancelTask(tasks, Registry(purpose)[user_id])
       IN  tasks' = [t \in TaskIds |->
                IF /\ cancelled[t].pc # "free"
                   /\ cancelled[t].user_id = user_id
                   /\ ~cancelled[t].was_cancelled
                THEN [cancelled[t] EXCEPT !.voided = TRUE]
                ELSE cancelled[t]]
    /\ SetRegistry(purpose, [Registry(purpose) EXCEPT ![user_id] = 0])
    /\ timerError' = 0
    /\ UNCHANGED <<storeVars, thePurpose, notTimer>>

\* cls.active_timers.pop(user_id, None) / _delayed_offer_tasks.pop(user_id,
\* None) in the finally block of the task: whatever task the key holds.
PopKey(purpose, user_id) ==
    SetRegistry(purpose, [Registry(purpose) EXCEPT ![user_id] = 0])

\* The event loop runs a new task up to its first await, the sleep.
TaskRun(t) ==
    /\ tasks[t].pc = "created"
    /\ ~tasks[t].cancel_pending
    /\ tasks' = [tasks EXCEPT ![t].pc = "sleep"]
    /\ timerError' = 0
    /\ UNCHANGED <<storeVars, active_timers, _delayed_offer_tasks, thePurpose,
                   notTimer>>

\* The event loop throws the pending CancelledError into the task, at the
\* await it is suspended in. timer_callback sleeps before its try block
\* (webhook.py 302, 307), send_delayed_offer inside it (kbju.py 194-195): a
\* finally block that is entered pops the key. A task that never ran has no
\* frame to unwind. In send_delayed_offer the finally block awaits
\* bot.session.close() first when the bot exists (kbju.py 207-210).
TaskCancelled(t) ==
    /\ tasks[t].cancel_pending
    /\ LET task == tasks[t]
           in_try == IF thePurpose = "calculated"
                     THEN task.pc \in {"get_user", "send"}
                     ELSE task.pc \in {"sleep", "send"}
           closes == thePurpose = "offer" /\ task.pc = "send"
       IN  /\ tasks' = [tasks EXCEPT ![t] =
                IF closes THEN [task EXCEPT !.cancel_pending = FALSE, !.pc = "close"]
                ELSE NoTask]
           /\ IF in_try /\ ~closes
              THEN PopKey(thePurpose, task.user_id)
              ELSE UNCHANGED <<active_timers, _delayed_offer_tasks>>
    /\ timerError' = 0
    /\ UNCHANGED <<storeVars, thePurpose, notTimer>>

\* asyncio.sleep returns: timer_callback goes on to get_user,
\* send_delayed_offer creates the bot and goes on to bot.send_message.
TimerExpire(t) ==
    /\ tasks[t].pc = "sleep"
    /\ ~tasks[t].cancel_pending
    /\ tasks' = [tasks EXCEPT ![t].pc =
                    IF thePurpose = "calculated" THEN "get_user" ELSE "send"]
    /\ timerError' = 0
    /\ UNCHANGED <<storeVars, active_timers, _delayed_offer_tasks, thePurpose,
                   notTimer>>

\* TimerGetUser sending for every lead that exists, whatever its status.
TimerGetUser_AnyStatus(t, raises) ==
    /\ thePurpose = "calculated"
    /\ tasks[t].pc = "get_user"
    /\ ~tasks[t].cancel_pending
    /\ LET user == users[tasks[t].user_id]
       IN  IF ~raises /\ user.exists
           THEN /\ tasks' = [tasks EXCEPT ![t].pc = "send"]
                /\ UNCHANGED <<active_timers, _delayed_offer_tasks>>
           ELSE /\ tasks' = [tasks EXCEPT ![t] = NoTask]
                /\ PopKey("calculated", tasks[t].user_id)
    /\ timerError' = IF raises THEN tasks[t].user_id ELSE 0
    /\ UNCHANGED <<storeVars, thePurpose, notTimer>>

\* timer_callback, webhook.py 307-321: get_user returns (or raises); the
\* webhook goes out only for a lead whose status is 'calculated', otherwise
\* the finally block pops the key and the task ends.
TimerGetUser(t, raises) ==
    /\ thePurpose = "calculated"
    /\ tasks[t].pc = "get_user"
    /\ ~tasks[t].cancel_pending
    /\ LET user == users[tasks[t].user_id]
       IN  IF ~raises /\ user.exists /\ user.funnel_status = "calculated"
           THEN /\ tasks' = [tasks EXCEPT ![t].pc = "send"]
                /\ UNCHANGED <<active_timers, _delayed_offer_tasks>>
           ELSE /\ tasks' = [tasks EXCEPT ![t] = NoTask]
                /\ PopKey("calculated", tasks[t].user_id)
    /\ timerError' = IF raises THEN tasks[t].user_id ELSE 0
    /\ UNCHANGED <<storeVars, thePurpose, notTimer>>

\* TimerSend with an exception of the send leaving the task before its
\* finally block: the key stays.
TimerSend_NoFinally(t, raises) ==
    /\ tasks[t].pc = "send"
    /\ ~tasks[t].cancel_pending
    /\ IF thePurpose = "calculated"
       THEN /\ tasks' = [tasks EXCEPT ![t] = NoTask]
            /\ IF raises
               THEN UNCHANGED <<active_timers, _delayed_offer_tasks>>
               ELSE PopKey("calculated", tasks[t].user_id)
       ELSE /\ tasks' = [tasks EXCEPT ![t].pc = "close"]
            /\ UNCHANGED <<active_timers, _delayed_offer_tasks>>
    /\ timerError' = IF raises /\ thePurpose = "calculated" THEN tasks[t].user_id ELSE 0
    /\ UNCHANGED <<storeVars, thePurpose, notTimer>>

\* The deferred action itself: WebhookService.send_calculated_lead
\* (webhook.py 312) or bot.send_message (kbju.py 197-202) returns, or raises
\* before anything was sent. timer_callback then pops its key and ends;
\* send_delayed_offer goes on to close the bot session.
TimerSend(t, raises) ==
    /\ tasks[t].pc = "send"
    /\ ~tasks[t].cancel_pending
    /\ IF thePurpose = "calculated"
       THEN /\ tasks' = [tasks EXCEPT ![t] = NoTask]
            /\ PopKey("calculated", tasks[t].user_id)
       ELSE /\ tasks' = [tasks EXCEPT ![t].pc = "close"]
            /\ UNCHANGED <<active_timers, _delayed_offer_tasks>>
    /\ timerError' = IF raises /\ thePurpose = "calculated" THEN tasks[t].user_id ELSE 0
    /\ UNCHANGED <<storeVars, thePurpose, notTimer>>

\* send_delayed_offer, kbju.py 207-210: bot.session.close() returns, the
\* key is popped and the task ends.
OfferClose(t) ==
    /\ thePurpose = "offer"
    /\ tasks[t].pc = "close"
    /\ ~tasks[t].cancel_pending
    /\ tasks' = [tasks EXCEPT ![t] = NoTask]
    /\ PopKey("offer", tasks[t].user_id)
    /\ timerError' = 0
    /\ UNCHANGED <<storeVars, thePurpose, notTimer>>

\* update_user_status, lines 167-195, as the handlers around the timers use
\* it: the lead leaves 'calculated' or comes back to it. Only the
\* calculated timer reads the row, so the rows change in its behaviours.
TimerStatusWrite(l, status) ==
    /\ thePurpose = "calculated"
    /\ users[l].exists
    /\ users[l].funnel_status # status
    /\ users' = [users EXCEPT ![l].funnel_status = status,
                              ![l].last_activity_at = now]
    /\ UNCHANGED <<now, notTimer, timerVars>>

\* delete_user_by_tg_id (requests.py 76-92), the admin's "delete lead": the
\* row is gone; the timers of the lead are not touched.
DeleteUser(l) ==
    /\ thePurpose = "calculated"
    /\ users[l].exists
    /\ users' = [users EXCEPT ![l] = [NewUser(0) EXCEPT !.exists = FALSE]]
    /\ UNCHANGED <<now, notTimer, timerVars>>


\* ------------------------------------------- the scanner as a service
\* The runners and the events start() creates, one of each per call that
\* gets past its checks.
RunnerIds == 1..MaxStarts
StopCallers == 1..MaxStops

\* A _runner task: left is the number of snapshots of the batch not yet
\* processed, event the asyncio.Event its wait_for waits on. History:
\* signalled (a stop() found the task in _task and awaits it).
NoRunner == [pc |-> "none", left |-> 0, event |-> 0, signalled |-> FALSE]

\* The task has finished: the loop broke, or an exception left _runner.
RunnerEnded(r) == r.pc \in {"done", "failed"}

RunnerActive(r) == r.pc \in {"created", "load", "lead", "wait"}

IdleStop == [pc |-> "idle", task |-> 0]

\* _runner, lines 573-576: cls._stop_event.wait() is evaluated when the
\* wait_for is reached, on whatever event the class attribute holds then; on
\* None the AttributeError leaves _runner (the outer try catches
\* CancelledError only).
EnterWait(r) ==
    IF _stop_event = 0 THEN [r EXCEPT !.pc = "failed", !.left = 0]
    ELSE [r EXCEPT !.pc = "wait", !.left = 0, !.event = _stop_event]

\* _runner, lines 518-526: the top of the loop reads cls._stop_event and
\* cls._bot again; a set event breaks the loop, without a bot the iteration
\* is skipped, otherwise the iteration begins with _load_candidates.
LoopTop(r) ==
    IF _stop_event = 0 THEN [r EXCEPT !.pc = "failed", !.left = 0]
    ELSE IF events[_stop_event] THEN [r EXCEPT !.pc = "done", !.left = 0]
    ELSE IF ~_bot THEN EnterWait(r)
    ELSE [r EXCEPT !.pc = "load", !.left = 0]

\* DripFollowupService.start, lines 460-488, with ENABLE_DRIP_FOLLOWUPS on:
\* nothing happens while _task holds a task that is not done; otherwise a
\* new event and a new task replace what the class attributes hold.
Start ==
    /\ starts < MaxStarts
    /\ ~(_task # 0 /\ ~RunnerEnded(runners[_task]))
    /\ starts' = starts + 1
    /\ _stop_event' = starts + 1
    /\ events' = [events EXCEPT ![starts + 1] = FALSE]
    /\ _bot' = TRUE
    /\ _task' = starts + 1
    /\ runners' = [runners EXCEPT ![starts + 1] = [NoRunner EXCEPT !.pc = "created"]]
    /\ UNCHANGED <<stops, storeVars, notSvc>>

\* DripFollowupService.stop, lines 494-503, up to `await task`: without a
\* task it returns; otherwise the event the class holds is set, _task is
\* cleared and the task awaited. A task that is already done does not
\* suspend the caller, whose finally block (lines 507-510) runs at once.
StopCall(c) ==
    /\ stops[c].pc = "idle"
    /\ IF _task = 0
       THEN /\ stops' = [stops EXCEPT ![c].pc = "done"]
            /\ UNCHANGED <<_task, _stop_event, _bot, events, runners>>
       ELSE /\ events' = IF _stop_event = 0 THEN events
                         ELSE [events EXCEPT ![_stop_event] = TRUE]
            /\ _task' = 0
            /\ IF RunnerEnded(runners[_task])
               THEN /\ stops' = [stops EXCEPT ![c] = [pc |-> "done", task |-> _task]]
                    /\ _stop_event' = 0
                    /\ _bot' = FALSE
                    /\ UNCHANGED runners
               ELSE /\ stops' = [stops EXCEPT ![c] = [pc |-> "await", task |-> _task]]
                    /\ runners' = [runners EXCEPT ![_task].signalled = TRUE]
                    /\ UNCHANGED <<_stop_event, _bot>>
    /\ UNCHANGED <<starts, storeVars, notSvc>>

\* stop, lines 504-510: the awaited task has finished; the finally block
\* clears _stop_event and _bot, whatever they hold by now.
StopReturn(c) ==
    /\ stops[c].pc = "await"
    /\ RunnerEnded(runners[stops[c].task])
    /\ stops' = [stops EXCEPT ![c].pc = "done"]
    /\ _stop_event' = 0
    /\ _bot' = FALSE
    /\ UNCHANGED <<_task, events, runners, starts, storeVars, notSvc>>

\* The event loop runs a new _runner task: the assert of line 515, then the
\* top of the loop.
RunnerRun(i) ==
    /\ runners[i].pc = "created"
    /\ runners' = [runners EXCEPT ![i] = LoopTop(runners[i])]
    /\ UNCHANGED <<_task, _stop_event, _bot, events, stops, starts, storeVars, notSvc>>

\* _runner, lines 535-554: _load_candidates returns n snapshots, or raises;
\* the exception is caught by the except of line 553 and the loop goes on
\* to its wait, as it does with an empty batch.
RunnerLoad(i, n, raises) ==
    /\ runners[i].pc = "load"
    /\ runners' = [runners EXCEPT ![i] =
            IF raises \/ n = 0 THEN EnterWait(runners[i])
            ELSE [runners[i] EXCEPT !.pc = "lead", !.left = n]]
    /\ UNCHANGED <<_task, _stop_event, _bot, events, stops, starts, storeVars, notSvc>>

\* _runner, lines 545-554: _process_snapshot returns for one snapshot, or
\* raises, which ends the batch (line 553); after the last snapshot the
\* loop goes on to its wait. The loop over the snapshots reads no event.
RunnerLead(i, raises) ==
    /\ runners[i].pc = "lead"
    /\ runners' = [runners EXCEPT ![i] =
            IF raises \/ runners[i].left = 1 THEN EnterWait(runners[i])
            ELSE [runners[i] EXCEPT !.left = @ - 1]]
    /\ UNCHANGED <<_task, _stop_event, _bot, events, stops, starts, storeVars, notSvc>>

\* _runner, lines 573-579: wait_for returns because the awaited event is
\* set (break), or times out after DRIP_CHECK_INTERVAL_SEC (continue, back
\* at the top of the loop).
RunnerWake(i) ==
    /\ runners[i].pc = "wait"
    /\ runners' = [runners EXCEPT ![i] =
            IF events[runners[i].event] THEN [runners[i] EXCEPT !.pc = "done"]
            ELSE LoopTop(runners[i])]
    /\ UNCHANGED <<_task, _stop_event, _bot, events, stops, starts, storeVars, notSvc>>

\* ------------------------------------------------- the subscription gate
\* What the handler passes as message_or_cb: a Message, the CallbackQuery of
\* the "check subscription" button (data = CHECK_CALLBACK_DATA), or another
\* CallbackQuery.
GateKinds == {"message", "check", "callback"}

\* What bot.get_chat_member produces in is_user_subscribed: a member
\* status, a status that is no membership, or an exception.
MemberResults == {"member", "left", "error"}

\* No call of ensure_subscription_and_continue yet. in_except: the frame is
\* in the except block of lines 104-111. History: invoked, the number of
\* times on_success was called in this call of the gate.
IdleGate == [pc |-> "idle", kind |-> "message", in_except |-> FALSE,
             invoked |-> 0]

\* is_user_subscribed, lines 35-74: every exception of get_chat_member is
\* caught; it counts as subscribed only under ALLOW_GATE_FALLBACK_PASS.
is_user_subscribed(result) ==
    IF result = "error" THEN ALLOW_GATE_FALLBACK_PASS
    ELSE result = "member"

\* ensure_subscription_and_continue, lines 104-111: an exception in the try
\* block is logged; under ALLOW_GATE_FALLBACK_PASS on_success is run from
\* the except block, otherwise the call returns.
GateExcept(frame) ==
    IF ALLOW_GATE_FALLBACK_PASS
    THEN [frame EXCEPT !.pc = "on_success", !.in_except = TRUE]
    ELSE [frame EXCEPT !.pc = "done"]

\* ensure_subscription_and_continue, lines 84-88, up to the first await
\* that leaves the coroutine: without gating on_success is run at once.
GateCall(kind) ==
    /\ gate.pc \in {"idle", "done", "raised"}
    /\ gateCalls < MaxGateCalls
    /\ gateCalls' = gateCalls + 1
    /\ gate' = [IdleGate EXCEPT !.kind = kind,
                   !.pc = IF gating_enabled THEN "membership" ELSE "on_success"]
    /\ UNCHANGED <<ALLOW_GATE_FALLBACK_PASS, gating_enabled, storeVars, notGate>>

\* Lines 90-96: is_user_subscribed returns; a subscribed user goes on to
\* on_success, another one to the gate prompt.
GateMembership(result) ==
    /\ gate.pc = "membership"
    /\ gate' = [gate EXCEPT !.pc = IF is_user_subscribed(result)
                                  THEN "on_success" ELSE "prompt"]
    /\ UNCHANGED <<ALLOW_GATE_FALLBACK_PASS, gating_enabled, gateCalls, storeVars, notGate>>

\* Lines 98-103: _notify_not_subscribed or _show_gate_prompt. Only the
\* edit_text of _show_gate_prompt for a CallbackQuery is outside a catch-all
\* (lines 145-151 catch TelegramBadRequest alone): raises stands for another
\* exception of it, which the except of line 104 catches.
GatePrompt(raises) ==
    /\ gate.pc = "prompt"
    /\ raises => gate.kind = "callback"
    /\ gate' = IF raises THEN GateExcept(gate) ELSE [gate EXCEPT !.pc = "done"]
    /\ UNCHANGED <<ALLOW_GATE_FALLBACK_PASS, gating_enabled, gateCalls, storeVars, notGate>>

\* _run_on_success, lines 114-127: on_success is awaited; its exception is
\* logged and raised again (the finally block answers the callback through
\* _safe_answer, which catches everything). Raised in the try block of
\* ensure_subscription_and_continue it is caught at line 104; raised in the
\* except block it leaves ensure_subscription_and_continue.
GateOnSuccess(raises) ==
    /\ gate.pc = "on_success"
    /\ LET frame == [gate EXCEPT !.invoked = @ + 1]
       IN  gate' = IF ~raises THEN [frame EXCEPT !.pc = "done"]
                   ELSE IF gate.in_except THEN [frame EXCEPT !.pc = "raised"]
                   ELSE GateExcept(frame)
    /\ UNCHANGED <<ALLOW_GATE_FALLBACK_PASS, gating_enabled, gateCalls, storeVars, notGate>>

\* ------------------------------------------------- hot-lead notification

\* config.ENABLE_HOT_LEAD_ALERTS, True unless the environment says otherwise.
ENABLE_HOT_LEAD_ALERTS == TRUE

\* status.startswith("hotlead_")
IsHotLead(status) == status \in {"hotlead_consultation", "hotlead_delayed"}

\* app/constants.py PRIORITY_SCORES, by key.
PRIORITY_SCORES ==
    [consultation_request |-> 100, hotlead_delayed |-> 80,
     coldlead_delayed |-> 10, coldlead |-> 5, new |-> 0]

\* The User class of models.py maps no priority and no priority_score column
\* (models.py 59-95, 163-169): on a loaded user the two names exist only
\* as far as update_user_status has assigned them (lines 172-177).
\* priority "" stands for None or empty, priority_score -1 for None.
HasPriorityAttrs(priority, priority_score) ==
    priority # "" /\ priority_score # -1

\* No update_user_status call. user_score: the priority_score attribute of
\* the user object the call works on (-1: not assigned); committed: the
\* call has committed its status.
IdleHot ==
    [pc |-> "idle", tg_id |-> 0, status |-> "new", priority |-> "",
     priority_score |-> -1, user_score |-> -1, committed |-> FALSE]

\* The call has returned or raised.
HotEnded(frame) == frame.pc \in {"idle", "done", "raised"}

\* A handler enters update_user_status(tg_id, status, priority=..,
\* priority_score=..); the coroutine is suspended in its session before the
\* commit.
HotCall(c, l, status, priority, priority_score) ==
    /\ HotEnded(hot[c])
    /\ hotCalls < MaxHotCalls
    /\ hot' = [hot EXCEPT ![c] =
            [IdleHot EXCEPT !.pc = "commit", !.tg_id = l, !.status = status,
                            !.priority = priority,
                            !.priority_score = priority_score]]
    /\ hotCalls' = hotCalls + 1
    /\ hotOverlap' = [hotOverlap EXCEPT ![l] =
            @ \/ \E d \in HotCallers \ {c} :
                     hot[d].tg_id = l /\ ~HotEnded(hot[d])]
    /\ UNCHANGED <<storeVars, hotNotes, notHot>>

\* update_user_status, lines 167-200: the status and the given arguments
\* are assigned to the loaded user, the snapshot reads user.priority and
\* user.priority_score (AttributeError when one was not assigned: the
\* session is left without a commit and the call raises), then the status
\* is committed; the notification path is entered for a hotlead_ status of
\* a found user. The status is stored as given.
HotCommit(c) ==
    /\ hot[c].pc = "commit"
    /\ LET l == hot[c].tg_id
           found == users[l].exists
           snapshot_ok == HasPriorityAttrs(hot[c].priority, hot[c].priority_score)
       IN  /\ users' = IF found /\ snapshot_ok
                       THEN [users EXCEPT ![l].funnel_status = hot[c].status,
                                          ![l].last_activity_at = now]
                       ELSE users
           /\ hot' = [hot EXCEPT
                  ![c].user_score = IF found THEN hot[c].priority_score ELSE -1,
                  ![c].committed = found /\ snapshot_ok,
                  ![c].pc =
                      IF found /\ ~snapshot_ok THEN "raised"
                      ELSE IF ENABLE_HOT_LEAD_ALERTS /\ IsHotLead(hot[c].status) /\ found
                      THEN "read" ELSE "done"]
    /\ UNCHANGED <<now, hotCalls, hotNotes, hotOverlap, notHot>>

\* was_hot_lead_notified (lines 353-367): notified_at is not None, or False
\* when the query fails.
was_hot_lead_notified(row, fails) ==
    IF fails THEN FALSE ELSE row.hot_lead_notified_at

\* update_user_status, lines 201-208.
HotRead(c, fails) ==
    /\ hot[c].pc = "read"
    /\ hot' = [hot EXCEPT ![c].pc =
            IF was_hot_lead_notified(users[hot[c].tg_id], fails)
            THEN "done" ELSE "notify"]
    /\ UNCHANGED <<storeVars, hotCalls, hotNotes, hotOverlap, notHot>>

\* utils.notifications.notify_new_hot_lead(user_snapshot): the notification
\* goes out and the call returns True, or nothing goes out and it returns
\* False or raises.
notify_new_hot_lead(sent) == sent

\* update_user_status, lines 210-216.
HotNotify(c, sent) ==
    /\ hot[c].pc = "notify"
    /\ hotNotes' = [hotNotes EXCEPT ![hot[c].tg_id] = @ + (IF sent THEN 1 ELSE 0)]
    /\ hot' = [hot EXCEPT ![c].pc =
            IF notify_new_hot_lead(sent) THEN "mark" ELSE "done"]
    /\ UNCHANGED <<storeVars, hotCalls, hotOverlap, notHot>>

\* mark_hot_lead_notified (lines 370-390): the marker is set and committed;
\* a missing user or a database error leaves it as it was, silently.
mark_hot_lead_notified(row, fails) ==
    IF fails \/ ~row.exists THEN row
    ELSE [row EXCEPT !.hot_lead_notified_at = TRUE]

\* update_user_status, lines 216-222.
HotMark(c, fails) ==
    /\ hot[c].pc = "mark"
    /\ users' = [users EXCEPT ![hot[c].tg_id] = mark_hot_lead_notified(@, fails)]
    /\ hot' = [hot EXCEPT ![c].pc = "done"]
    /\ UNCHANGED <<now, hotCalls, hotNotes, hotOverlap, notHot>>

\* ------------------------------------------------------- webhook delivery

\* The lead_type arguments of send_lead_to_n8n: the three kinds of
\* send_hot_lead / send_cold_lead / send_calculated_lead, and 'test'.
LeadTypes == {"hot", "cold", "calculated", "test"}

\* user_data.get('tg_id'): 0 stands for a missing, None or zero id.
UserIds == 0..NumLeads

\* What awaiting session.post produces: a response with a status, or
\* asyncio.TimeoutError, or another exception.
Response(kind, status) == [kind |-> kind, status |-> status]

Responses ==
    {Response("status", n) : n \in {200, 201, 404, 500}} \cup
    {Response("timeout", 0), Response("error", 0)}

\* validate_payload (lines 58-93): TRUE when it returns, FALSE when it
\* raises ValueError. send_lead_to_n8n always sets lead_type and timestamp.
validate_payload_AnyKind(lead_type, user_id) == user_id # 0

validate_payload(lead_type, user_id) ==
    /\ user_id # 0
    /\ lead_type \in {"hot", "cold", "calculated"}

\* send_lead_to_n8n, lines 216-222; test_webhook_connection (line 392)
\* passes max_attempts=1 with its 'test' payload.
max_attempts(lead_type) ==
    IF lead_type = "hot" THEN 5
    ELSE IF lead_type = "calculated" THEN 3
    ELSE IF lead_type = "test" THEN 1
    ELSE 2

\* 400 <= response.status < 500
IsClientError_Never(status) == FALSE

IsClientError(status) == 400 <= status /\ status < 500

\* attempt == max_attempts - 1, the test that guards log_error after a
\* failed attempt that is not a 4xx (lines 144, 158, 166).
IsLastAttempt_Always(attempt, lead_type) == TRUE

IsLastAttempt(attempt, lead_type) == attempt = max_attempts(lead_type) - 1

\* delay = 2 ** attempt
BackoffDelay_Capped(attempt) == Min2(2 ^ attempt, 2)

BackoffDelay(attempt) == 2 ^ attempt

\* No Send call yet. History fields: resps (what every session.post of the
\* call produced, in order) and delays (the backoff waits of the call).
IdleSend ==
    [pc |-> "idle", lead_type |-> "hot", user_id |-> 0, attempt |-> 0,
     result |-> FALSE, resps |-> <<>>, delays |-> <<>>]

\* send_with_retry returns.
Return(frame, result) == [frame EXCEPT !.pc = "done", !.result = result]

\* The top of the loop body, lines 112-124: the payload is validated, then
\* the coroutine is suspended in session.post; ValueError is logged as an
\* error and ends the call with False.
BeginAttempt(frame, attempt) ==
    IF validate_payload(frame.lead_type, frame.user_id)
    THEN /\ send' = [frame EXCEPT !.pc = "post", !.attempt = attempt]
         /\ UNCHANGED error_count
    ELSE /\ send' = Return([frame EXCEPT !.attempt = attempt], FALSE)
         /\ error_count' = error_count + 1

\* WebhookService.send_lead_to_n8n(user_data, lead_type), or
\* test_webhook_connection with its 'test' payload, up to the first await
\* of send_with_retry: with no URL configured the call returns True at
\* once (lines 107-110), otherwise the first attempt begins.
SendCall(lead_type, user_id) ==
    /\ send.pc \in {"idle", "done"}
    /\ sends < MaxSends
    /\ sends' = sends + 1
    /\ LET frame == [IdleSend EXCEPT !.lead_type = lead_type, !.user_id = user_id]
       IN  IF N8N_WEBHOOK_URL = ""
           THEN /\ send' = Return(frame, TRUE)
                /\ UNCHANGED error_count
           ELSE BeginAttempt(frame, 0)
    /\ UNCHANGED <<storeVars, N8N_WEBHOOK_URL, success_count, notSend>>

\* SendPost with every 2xx status taken as a success.
SendPost_Any2xx(resp) ==
    /\ send.pc = "post"
    /\ LET frame == [send EXCEPT !.resps = Append(@, resp)]
           last == IsLastAttempt(send.attempt, send.lead_type)
       IN  IF resp.kind = "status" /\ resp.status \in 200..299
           THEN /\ send' = Return(frame, TRUE)
                /\ success_count' = success_count + 1
                /\ UNCHANGED error_count
           ELSE IF resp.kind = "status" /\ IsClientError(resp.status)
           THEN /\ send' = Return(frame, FALSE)
                /\ error_count' = error_count + 1
                /\ UNCHANGED success_count
           ELSE /\ error_count' = error_count + (IF last THEN 1 ELSE 0)
                /\ UNCHANGED success_count
                /\ send' = IF send.attempt < max_attempts(send.lead_type) - 1
                           THEN [frame EXCEPT !.pc = "sleep",
                                    !.delays = Append(@, BackoffDelay(send.attempt))]
                           ELSE Return(frame, FALSE)
    /\ UNCHANGED <<storeVars, N8N_WEBHOOK_URL, sends, notSend>>

\* session.post returns or raises, lines 119-172: 200 is a success, a 4xx
\* status ends the call, anything else is logged (as an error on the last
\* attempt) and followed by the backoff sleep, or by return False after the
\* last attempt.
SendPost(resp) ==
    /\ send.pc = "post"
    /\ LET frame == [send EXCEPT !.resps = Append(@, resp)]
           last == IsLastAttempt(send.attempt, send.lead_type)
       IN  IF resp.kind = "status" /\ resp.status = 200
           THEN /\ send' = Return(frame, TRUE)
                /\ success_count' = success_count + 1
                /\ UNCHANGED error_count
           ELSE IF resp.kind = "status" /\ IsClientError(resp.status)
           THEN /\ send' = Return(frame, FALSE)
                /\ error_count' = error_count + 1
                /\ UNCHANGED success_count
           ELSE /\ error_count' = error_count + (IF last THEN 1 ELSE 0)
                /\ UNCHANGED success_count
                /\ send' = IF send.attempt < max_attempts(send.lead_type) - 1
                           THEN [frame EXCEPT !.pc = "sleep",
                                    !.delays = Append(@, BackoffDelay(send.attempt))]
                           ELSE Return(frame, FALSE)
    /\ UNCHANGED <<storeVars, N8N_WEBHOOK_URL, sends, notSend>>

\* asyncio.sleep(delay) returns and the next attempt begins.
SendWake ==
    /\ send.pc = "sleep"
    /\ BeginAttempt(send, send.attempt + 1)
    /\ UNCHANGED <<storeVars, N8N_WEBHOOK_URL, sends, success_count, notSend>>

\* ------------------------------------------- evaluation of one candidate

\* The values of a timestamp column, in seconds: -1 stands for NULL, the
\* last one lies after every instant of the clock.
Timestamps == {-1, 0, 1, 172802}

\* The instants at which a candidate is evaluated: each threshold is met to
\* the second by a reference time of 0 and missed by one second by a
\* reference time of 1.
EvalInstants ==
    {0, 60 * DRIP_24H_MIN, 60 * DRIP_24H_MIN + 1, 60 * DRIP_48H_MIN,
     60 * DRIP_48H_MIN + 1, 60 * DRIP_72H_MIN, 60 * DRIP_72H_MIN + 1}

\* _resolve_activity_timestamp: <<the reference time, its source>>.
\* list.sort(reverse=True) is stable: of two equal times updated_at, which
\* is listed first, stays first.
_resolve_activity_timestamp(last_activity, updated_at, created_at) ==
    IF last_activity # -1 THEN <<last_activity, "last_activity_at">>
    ELSE IF updated_at = -1 /\ created_at = -1 THEN <<-1, "none">>
    ELSE IF created_at = -1 THEN <<updated_at, "updated_at">>
    ELSE IF updated_at = -1 THEN <<created_at, "created_at">>
    ELSE IF updated_at >= created_at THEN <<updated_at, "updated_at">>
    ELSE <<created_at, "created_at">>

\* A row as loaded by _load_candidates and not yet evaluated.
EvalInput(row, utcnow) ==
    [pc |-> "loaded", row |-> row, utcnow |-> utcnow, activity_at |-> -1,
     activity_source |-> "none", outcome |-> "none", elapsed |-> 0,
     targets |-> [cohort \in {"stalled", "tips"} |-> 0]]

\* The rows and clocks the evaluation is checked for.
EvalInputs ==
    {EvalInput([funnel_status |-> status, has_started |-> started,
                drip_stage |-> stage, last_activity_at |-> la,
                updated_at |-> ua, created_at |-> ca], utcnow) :
        status \in Statuses, started \in BOOLEAN, stage \in 0..3,
        la \in Timestamps, ua \in Timestamps, ca \in Timestamps,
        utcnow \in EvalInstants}

\* The DripUserSnapshot _load_candidates builds of the row (lines 190-214).
EvalSnapshot(row) ==
    [tg_id |-> 1, funnel_status |-> row.funnel_status,
     activity_at |-> _resolve_activity_timestamp(
                         row.last_activity_at, row.updated_at, row.created_at)[1],
     drip_stage_stalled |-> row.drip_stage, drip_stage_tips |-> row.drip_stage,
     has_started |-> row.has_started]

\* _load_candidates for the row and _process_snapshot, lines 340-419, for
\* its snapshot: the candidate is skipped for want of a reference time or
\* for one in the future, or each cohort gets the stage it goes to the
\* stage guard with (0: the cohort is skipped).
Evaluate ==
    /\ ev.pc = "loaded"
    /\ LET resolved == _resolve_activity_timestamp(
                           ev.row.last_activity_at, ev.row.updated_at,
                           ev.row.created_at)
           snapshot == EvalSnapshot(ev.row)
           elapsed_seconds == ev.utcnow - snapshot.activity_at
           outcome == IF snapshot.activity_at = -1 THEN "no_activity_timestamp"
                      ELSE IF elapsed_seconds < 0 THEN "activity_in_future"
                      ELSE "evaluated"
       IN  ev' = [ev EXCEPT
                !.pc = "done",
                !.activity_at = resolved[1],
                !.activity_source = resolved[2],
                !.outcome = outcome,
                !.elapsed = IF outcome = "evaluated" THEN elapsed_seconds ELSE 0,
                !.targets = [cohort \in {"stalled", "tips"} |->
                    IF outcome = "evaluated"
                    THEN CohortTarget(snapshot, cohort, elapsed_seconds)
                    ELSE 0]]
    /\ UNCHANGED <<storeVars, notEval>>

InitScanner ==
    /\ scan = IdleScan /\ tick = 0 /\ userActs = 0
    /\ iterStart = [l \in Leads |-> 0]
    /\ resetSince = [l \in Leads |-> FALSE]
    /\ lastWrite = NoWrite
    /\ lastSent = [l \in Leads |-> <<>>]
    /\ failed = [l \in Leads |-> NoFailure]

InitTasks ==
    /\ tasks = [t \in TaskIds |-> NoTask]
    /\ active_timers = [l \in Leads |-> 0]
    /\ _delayed_offer_tasks = [l \in Leads |-> 0]
    /\ thePurpose = "calculated"
    /\ timerError = 0

InitHotCalls ==
    /\ hot = [c \in HotCallers |-> IdleHot]
    /\ hotCalls = 0
    /\ hotNotes = [l \in Leads |-> 0]
    /\ hotOverlap = [l \in Leads |-> FALSE]

InitMetrics ==
    /\ send = IdleSend
    /\ sends = 0
    /\ success_count = 0
    /\ error_count = 0

InitSender ==
    /\ N8N_WEBHOOK_URL = ""
    /\ InitMetrics

\* The service before the first start().
InitSvc ==
    /\ _task = 0 /\ _stop_event = 0 /\ _bot = FALSE
    /\ events = [e \in RunnerIds |-> FALSE]
    /\ runners = [i \in RunnerIds |-> NoRunner]
    /\ stops = [c \in StopCallers |-> IdleStop]
    /\ starts = 0

\* The gate before its first call, with the defaults of config.py.
InitNoGate ==
    /\ ALLOW_GATE_FALLBACK_PASS = FALSE
    /\ gating_enabled = FALSE
    /\ gate = IdleGate
    /\ gateCalls = 0

\* The row the other sub-systems leave unevaluated.
InitEval ==
    ev = EvalInput([funnel_status |-> "new", has_started |-> FALSE,
                    drip_stage |-> 0, last_activity_at |-> -1,
                    updated_at |-> -1, created_at |-> -1], 0)

InitCas ==
    /\ users \in [Leads -> {[NewUser(0) EXCEPT !.drip_stage = s] : s \in 0..3}]
    /\ now = 0
    /\ calls = [c \in Callers |-> IdleCall]
    /\ stage0 = [l \in Leads |-> users[l].drip_stage]
    /\ InitScanner
    /\ InitTasks
    /\ InitHotCalls
    /\ InitSender
    /\ InitEval
    /\ InitSvc
    /\ InitNoGate

NextCas ==
    \/ \E c \in Callers, l \in Leads, f \in StageArgs, t \in StageArgs :
          UdsCall(c, l, f, t)
    \/ \E c \in Callers : UdsExecute(c)

SpecCas == InitCas /\ [][NextCas]_vars

\* The statuses the scanner tells apart: unfinished, tips branch, finished.
DripStatuses == {"new", "coldlead_delayed", "hotlead_consultation"}

InitDrip ==
    /\ users = [l \in Leads |-> [NewUser(0) EXCEPT !.has_started = TRUE]]
    /\ now = 0
    /\ calls = [c \in Callers |-> IdleCall]
    /\ stage0 = [l \in Leads |-> 0]
    /\ InitScanner
    /\ InitTasks
    /\ InitHotCalls
    /\ InitSender
    /\ InitEval
    /\ InitSvc
    /\ InitNoGate

NextDrip ==
    \/ ScanLoad
    \/ \E raises \in BOOLEAN : ScanGuard(raises)
    \/ \E delivered \in BOOLEAN : ScanSend(delivered)
    \/ \E raises \in BOOLEAN : ScanWrite(raises)
    \/ \E l \in Leads : UserActivity(l)
    \/ \E l \in Leads, status \in DripStatuses : StatusWrite(l, status)
    \/ \E instant \in Instants : Tick(instant)

SpecDrip == InitDrip /\ [][NextDrip]_vars

\* The scanner with its deliveries on record.
NextDripLog ==
    \/ ScanLoad
    \/ \E raises \in BOOLEAN : ScanGuard(raises)
    \/ \E delivered \in BOOLEAN : ScanSendLogged(delivered)
    \/ \E raises \in BOOLEAN : ScanWrite(raises)
    \/ \E l \in Leads : UserActivity(l)
    \/ \E l \in Leads, status \in DripStatuses : StatusWrite(l, status)
    \/ \E instant \in Instants : Tick(instant)

SpecDripLog == InitDrip /\ [][NextDripLog]_vars

\* The scanner with leads being deleted under it.
NextDripDel ==
    \/ ScanLoad
    \/ \E raises \in BOOLEAN : ScanGuard(raises)
    \/ \E delivered \in BOOLEAN : ScanSend(delivered)
    \/ \E raises \in BOOLEAN : ScanWrite(raises)
    \/ \E l \in Leads : LeadDeleted(l)
    \/ \E instant \in Instants : Tick(instant)

SpecDripDel == InitDrip /\ [][NextDripDel]_vars

TimerStatuses == {"calculated", "hotlead_consultation"}

InitTimer ==
    /\ users = [l \in Leads |->
            [NewUser(0) EXCEPT !.has_started = TRUE, !.funnel_status = "calculated"]]
    /\ now = 0
    /\ calls = [c \in Callers |-> IdleCall]
    /\ stage0 = [l \in Leads |-> 0]
    /\ InitScanner
    /\ tasks = [t \in TaskIds |-> NoTask]
    /\ active_timers = [l \in Leads |-> 0]
    /\ _delayed_offer_tasks = [l \in Leads |-> 0]
    /\ thePurpose \in Purposes
    /\ timerError = 0
    /\ InitHotCalls
    /\ InitSender
    /\ InitEval
    /\ InitSvc
    /\ InitNoGate

NextTimer ==
    \/ \E l \in Leads : StartTimer(thePurpose, l)
    \/ \E l \in Leads : CancelTimer(thePurpose, l)
    \/ \E t \in TaskIds : TaskRun(t)
    \/ \E t \in TaskIds : TaskCancelled(t)
    \/ \E t \in TaskIds : TimerExpire(t)
    \/ \E t \in TaskIds, raises \in BOOLEAN : TimerGetUser(t, raises)
    \/ \E t \in TaskIds, raises \in BOOLEAN : TimerSend(t, raises)
    \/ \E t \in TaskIds : OfferClose(t)
    \/ \E l \in Leads, status \in TimerStatuses : TimerStatusWrite(l, status)
    \/ \E l \in Leads : DeleteUser(l)

SpecTimer == InitTimer /\ [][NextTimer]_vars

\* The statuses the notification path tells apart: hot-lead or not.
HotStatuses == {"hotlead_consultation", "coldlead"}

\* A status argument that is none of FUNNEL_STATUSES.
UnknownStatus == "archived"

\* The priority arguments: None, or one of USER_PRIORITIES.
Priorities == {"", "nutrition"}

\* The priority_score arguments: None, PRIORITY_SCORES['coldlead'],
\* PRIORITY_SCORES['consultation_request'].
ScoreArgs == {-1, PRIORITY_SCORES.coldlead, PRIORITY_SCORES.consultation_request}

InitHot ==
    /\ users \in [Leads -> {[NewUser(0) EXCEPT !.has_started = TRUE, !.exists = e] :
                                e \in BOOLEAN}]
    /\ now = 0
    /\ calls = [c \in Callers |-> IdleCall]
    /\ stage0 = [l \in Leads |-> 0]
    /\ InitScanner
    /\ InitTasks
    /\ InitHotCalls
    /\ InitSender
    /\ InitEval
    /\ InitSvc
    /\ InitNoGate

NextHot ==
    \/ \E c \in HotCallers, l \in Leads, status \in HotStatuses \cup {UnknownStatus},
          priority \in Priorities, priority_score \in ScoreArgs :
              HotCall(c, l, status, priority, priority_score)
    \/ \E c \in HotCallers : HotCommit(c)
    \/ \E c \in HotCallers, fails \in BOOLEAN : HotRead(c, fails)
    \/ \E c \in HotCallers, sent \in BOOLEAN : HotNotify(c, sent)
    \/ \E c \in HotCallers, fails \in BOOLEAN : HotMark(c, fails)

SpecHot == InitHot /\ [][NextHot]_vars

InitSend ==
    /\ users = [l \in Leads |-> NewUser(0)]
    /\ now = 0
    /\ calls = [c \in Callers |-> IdleCall]
    /\ stage0 = [l \in Leads |-> 0]
    /\ InitScanner
    /\ InitTasks
    /\ InitHotCalls
    /\ N8N_WEBHOOK_URL \in {"", "https://n8n/webhook"}
    /\ InitMetrics
    /\ InitEval
    /\ InitSvc
    /\ InitNoGate

NextSend ==
    \/ \E lead_type \in LeadTypes, user_id \in UserIds : SendCall(lead_type, user_id)
    \/ \E resp \in Responses : SendPost(resp)
    \/ SendWake

SpecSend == InitSend /\ [][NextSend]_vars

InitCandidate ==
    /\ users = [l \in Leads |-> NewUser(0)]
    /\ now = 0
    /\ calls = [c \in Callers |-> IdleCall]
    /\ stage0 = [l \in Leads |-> 0]
    /\ InitScanner
    /\ InitTasks
    /\ InitHotCalls
    /\ InitSender
    /\ InitSvc
    /\ InitNoGate
    /\ ev \in EvalInputs

NextEval == Evaluate

SpecEval == InitCandidate /\ [][NextEval]_vars

\* The two engines side by side over the same rows: the scanner's
\* iterations and the calculated-lead timers, with the handlers that start a
\* timer and write a status on a user's action.
EngineStatuses == {"new", "calculated"}

InitEngine ==
    /\ users \in [Leads -> {[NewUser(0) EXCEPT !.has_started = TRUE,
                                                !.funnel_status = status] :
                                status \in EngineStatuses}]
    /\ now = 0
    /\ calls = [c \in Callers |-> IdleCall]
    /\ stage0 = [l \in Leads |-> 0]
    /\ InitScanner
    /\ InitTasks
    /\ InitHotCalls
    /\ InitSender
    /\ InitEval
    /\ InitSvc
    /\ InitNoGate

\* A step of the scanner or of a timer task.
EngineStep ==
    \/ ScanLoad
    \/ \E raises \in BOOLEAN : ScanGuard(raises)
    \/ \E delivered \in BOOLEAN : ScanSend(delivered)
    \/ \E raises \in BOOLEAN : ScanWrite(raises)
    \/ \E t \in TaskIds : TaskRun(t)
    \/ \E t \in TaskIds : TaskCancelled(t)
    \/ \E t \in TaskIds : TimerExpire(t)
    \/ \E t \in TaskIds, raises \in BOOLEAN : TimerGetUser(t, raises)
    \/ \E t \in TaskIds, raises \in BOOLEAN : TimerSend(t, raises)

NextEngine ==
    \/ EngineStep
    \/ \E l \in Leads : StartTimer("calculated", l)
    \/ \E l \in Leads, status \in DripStatuses : StatusWrite(l, status)
    \/ \E instant \in Instants : Tick(instant)

SpecEngine == InitEngine /\ [][NextEngine]_vars

\* The gate alone, under every setting of the two switches.
InitGate ==
    /\ users = [l \in Leads |-> NewUser(0)]
    /\ now = 0
    /\ calls = [c \in Callers |-> IdleCall]
    /\ stage0 = [l \in Leads |-> 0]
    /\ InitScanner
    /\ InitTasks
    /\ InitHotCalls
    /\ InitSender
    /\ InitEval
    /\ InitSvc
    /\ ALLOW_GATE_FALLBACK_PASS \in BOOLEAN
    /\ gating_enabled \in BOOLEAN
    /\ gate = IdleGate
    /\ gateCalls = 0

NextGate ==
    \/ \E kind \in GateKinds : GateCall(kind)
    \/ \E result \in MemberResults : GateMembership(result)
    \/ \E raises \in BOOLEAN : GatePrompt(raises)
    \/ \E raises \in BOOLEAN : GateOnSuccess(raises)

SpecGate == InitGate /\ [][NextGate]_vars

\* The service alone: start() and stop() are called from outside in any
\* order while the runner tasks take their steps.
InitService ==
    /\ users = [l \in Leads |-> NewUser(0)]
    /\ now = 0
    /\ calls = [c \in Callers |-> IdleCall]
    /\ stage0 = [l \in Leads |-> 0]
    /\ InitScanner
    /\ InitTasks
    /\ InitHotCalls
    /\ InitSender
    /\ InitEval
    /\ InitSvc
    /\ InitNoGate

NextSvc ==
    \/ Start
    \/ \E c \in StopCallers : StopCall(c)
    \/ \E c \in StopCallers : StopReturn(c)
    \/ \E i \in RunnerIds : RunnerRun(i)
    \/ \E i \in RunnerIds, n \in 0..MaxBatch, raises \in BOOLEAN : RunnerLoad(i, n, raises)
    \/ \E i \in RunnerIds, raises \in BOOLEAN : RunnerLead(i, raises)
    \/ \E i \in RunnerIds : RunnerWake(i)

SpecSvc == InitService /\ [][NextSvc]_vars

\* ------------------------------------------------------------------ claims

\* The callers of update_drip_stage that started from the lead's initial
\* stage f to advance it to f + 1.
SameStart(l) ==
    {c \in Callers : /\ calls[c].pc # "idle"
                     /\ calls[c].tg_id = l
                     /\ calls[c].current_stage = stage0[l]
                     /\ calls[c].target_stage = stage0[l] + 1}

\* C1: two concurrent update_drip_stage calls for the same lead with the
\* same starting stage: at most one of them ever returns True, the stored
\* stage is the start or start + 1, and once both have returned exactly one
\* returned True and the stored stage is start + 1.
C1_CasOneWinner ==
    \A l \in Leads :
        LET won == {c \in SameStart(l) : calls[c].pc = "done" /\ calls[c].result}
        IN  /\ Cardinality(won) <= 1
            /\ SameStart(l) = Callers =>
                   users[l].drip_stage \in {stage0[l], stage0[l] + 1}
            /\ (SameStart(l) = Callers /\ \A c \in Callers : calls[c].pc = "done") =>
                   /\ Cardinality(won) = 1
                   /\ users[l].drip_stage = stage0[l] + 1

\* Both callers ran against the same lead from the same stage and returned.
C1_Witness ==
    \E l \in Leads :
        /\ SameStart(l) = Callers
        /\ \A c \in Callers : calls[c].pc = "done"
        /\ \E c \in Callers : ~calls[c].result

\* C2: without an external reset the stored drip stage never decreases, and
\* from the load of a scan iteration on it is at most one above the stage
\* the iteration loaded, whatever the elapsed time.
C2_StageMonotone ==
    [][\A l \in Leads :
          /\ ~UserActivity(l) => users'[l].drip_stage >= users[l].drip_stage
          /\ ~resetSince'[l] =>
                 /\ users'[l].drip_stage >= iterStart'[l]
                 /\ users'[l].drip_stage <= iterStart'[l] + 1]_vars

\* A scan advanced a lead from stage 0 to stage 1 when the elapsed time had
\* already reached the thresholds of the stages 1 and 2.
C2_Witness ==
    /\ lastWrite.updated
    /\ lastWrite.from_stage = 0
    /\ lastWrite.elapsed >= 60 * DRIP_48H_MIN
    /\ ~resetSince[lastWrite.tg_id]
    /\ users[lastWrite.tg_id].drip_stage = 1

\* The tasks of a lead that are neither finished nor cancelled.
LiveTasks(l) ==
    {t \in TaskIds : /\ tasks[t].pc # "free"
                     /\ tasks[t].user_id = l
                     /\ ~tasks[t].was_cancelled}

\* C3: in every reachable state a (lead, purpose) has at most one deferred
\* task that is neither finished nor cancelled, and that task is the one
\* its registry records.
C3_OnePendingRegistered ==
    \A l \in Leads :
        /\ Cardinality(LiveTasks(l)) <= 1
        /\ \A t \in LiveTasks(l) : Registry(thePurpose)[l] = t

\* C4: a deferred action that a later Start of its key has replaced never
\* sends its message or webhook.
C4_ReplacedNeverSends ==
    [][\A t \in TaskIds : TimerSend(t, FALSE) => ~tasks[t].superseded]_vars

\* C5: a deferred action that was started before a Cancel of its key never
\* sends its message or webhook after the Cancel.
C5_CancelledNeverSends ==
    [][\A t \in TaskIds : TimerSend(t, FALSE) => ~tasks[t].voided]_vars

\* C6: update_user_status calls for a lead that do not overlap send at most
\* one "new hot lead" notification for it, whatever the outcomes of the
\* notification send, the marker read and the marker write.
C6_SequentialOneNotification ==
    \A l \in Leads : ~hotOverlap[l] => hotNotes[l] <= 1

\* C7: no "new hot lead" notification is sent for a lead whose
\* hot_lead_notified_at is set, overlapping transitions included.
C7_NoNotificationOnceMarked ==
    [][\A c \in HotCallers :
          HotNotify(c, TRUE) => ~users[hot[c].tg_id].hot_lead_notified_at]_vars

\* The retry budgets C8 states.
C8_Budget == [hot |-> 5, calculated |-> 3, cold |-> 2]

\* Every session.post of the current Send call got HTTP 500.
Always500 ==
    \A i \in DOMAIN send.resps : send.resps[i] = Response("status", 500)

\* A Send call of a known kind with a user id, to a configured endpoint.
Deliverable ==
    /\ N8N_WEBHOOK_URL # ""
    /\ send.pc # "idle"
    /\ send.lead_type \in DOMAIN C8_Budget
    /\ send.user_id # 0

\* C8: against an endpoint that always returns HTTP 500 a Send makes exactly
\* budget attempts (hot 5 > calculated 3 > cold 2), waits a strictly
\* increasing backoff between consecutive attempts and none after the last,
\* and returns false.
C8_RetryExhaustion ==
    (Deliverable /\ Always500) =>
        /\ Len(send.resps) <= C8_Budget[send.lead_type]
        /\ \A i \in 1..(Len(send.delays) - 1) : send.delays[i] < send.delays[i + 1]
        /\ send.pc = "sleep" => Len(send.delays) = Len(send.resps)
        /\ send.pc = "post" => Len(send.delays) = Len(send.resps)
        /\ send.pc = "done" =>
               /\ Len(send.resps) = C8_Budget[send.lead_type]
               /\ Len(send.delays) = C8_Budget[send.lead_type] - 1
               /\ ~send.result
        /\ C8_Budget.hot > C8_Budget.calculated
        /\ C8_Budget.calculated > C8_Budget.cold

\* A hot-lead Send returned after five attempts that all got HTTP 500.
C8_Witness ==
    /\ Deliverable /\ Always500
    /\ send.pc = "done"
    /\ send.lead_type = "hot"
    /\ Len(send.resps) = 5
    /\ send.delays = <<1, 2, 4, 8>>

C10_ClientErrorStops ==
    \A i \in DOMAIN send.resps :
        (send.resps[i].kind = "status" /\ send.resps[i].status \in 400..499) =>
            /\ i = Len(send.resps)
            /\ send.pc = "done"
            /\ ~send.result
            /\ Len(send.delays) = i - 1

\* A hot-lead Send got HTTP 404 on its second attempt, with three attempts
\* of its budget left, and returned.
C10_Witness ==
    /\ send.pc = "done"
    /\ send.lead_type = "hot"
    /\ send.resps = <<Response("status", 500), Response("status", 404)>>
    /\ send.delays = <<1>>
    /\ ~send.result

\* The Send calls that have returned.
CompletedSends == sends - (IF send.pc \in {"post", "sleep"} THEN 1 ELSE 0)

\* C11: with an endpoint configured, the step that ends a Send in failure
\* adds one to error_count and nothing to success_count, the step that ends
\* it with true adds one to success_count and nothing to error_count, every
\* other step (a retried attempt, a backoff wait) changes neither, and so
\* success_count + error_count is the number of completed Sends.
C11_OneCountPerSend ==
    [][N8N_WEBHOOK_URL # "" =>
          LET returns == send'.pc = "done" /\ (send.pc # "done" \/ sends' # sends)
          IN  /\ (returns /\ ~send'.result) =>
                     /\ error_count' = error_count + 1
                     /\ success_count' = success_count
              /\ (returns /\ send'.result) =>
                     /\ success_count' = success_count + 1
                     /\ error_count' = error_count
              /\ ~returns =>
                     /\ success_count' = success_count
                     /\ error_count' = error_count
              /\ success_count' + error_count' = CompletedSends']_vars

\* Two Sends to a configured endpoint returned, one counted as an error and
\* one as a success, the latter after an attempt that failed and was retried.
C11_Witness ==
    /\ N8N_WEBHOOK_URL # ""
    /\ sends = 2
    /\ send.pc = "done"
    /\ send.result
    /\ Len(send.resps) >= 2
    /\ success_count = 1
    /\ error_count = 1

\* C12: the stored funnel_status of every lead is one of the closed status
\* set; an update_user_status call with another status stores nothing.
C12_UnknownStatusNeverStored ==
    \A l \in Leads : users[l].funnel_status \in Statuses

\* C13: after every committed update_user_status call the priority_score of
\* the user it wrote is the PRIORITY_SCORES entry of the status it stored,
\* whatever arguments the caller passed.
C13_ScoreFollowsStatus ==
    \A c \in HotCallers :
        hot[c].committed =>
            /\ hot[c].status \in DOMAIN PRIORITY_SCORES
            /\ hot[c].user_score = PRIORITY_SCORES[hot[c].status]

\* The thresholds of the stages 1, 2, 3 in minutes, as C14 takes them.
C14_Threshold == <<60, 1440, 2880>>

\* C14: for a candidate at stage s < 3 that a cohort is eligible for, the
\* scan targets stage s + 1 exactly when the elapsed time since the
\* reference activity time is at least the threshold of stage s + 1, and
\* targets no stage otherwise.
C14_InclusiveThreshold ==
    (ev.pc = "done" /\ ev.outcome = "evaluated") =>
        \A cohort \in {"stalled", "tips"} :
            (_cohort_membership(EvalSnapshot(ev.row), cohort) /\ ev.row.drip_stage < 3) =>
                LET s == ev.row.drip_stage
                IN  /\ ev.targets[cohort] \in {0, s + 1}
                    /\ ev.targets[cohort] = s + 1 <=>
                           ev.elapsed >= 60 * C14_Threshold[s + 1]

\* A started lead at stage 0 was evaluated exactly 60 minutes after its
\* reference time and is targeted for stage 1.
C14_Witness ==
    /\ ev.pc = "done"
    /\ ev.outcome = "evaluated"
    /\ ev.row.drip_stage = 0
    /\ ev.row.funnel_status = "new"
    /\ ev.row.has_started
    /\ ev.elapsed = 3600
    /\ ev.targets["stalled"] = 1

\* The snapshots a step of the scanner starts from: the candidates it loads
\* when it begins an iteration, its queue otherwise.
C15_Before ==
    IF scan'.iteration # scan.iteration THEN LoadFrom(1, users) ELSE scan.queue

\* The leads whose snapshot a step of the scanner leaves behind without
\* taking a cohort of it to the stage guard.
C15_Passed ==
    {C15_Before[i].tg_id : i \in 1..(Len(C15_Before) - Len(scan'.queue))}
        \ (IF scan'.pc = "sleep" THEN {} ELSE {scan'.snapshot.tg_id})

\* C15: the stored stage of a lead advances only in the stage write that
\* follows a delivered follow-up; a lead whose send failed (the send raised
\* or no text resolved) keeps its stage in that iteration, and while its row
\* is unchanged every later scan loads it and, unless the stage guard's read
\* raises in that scan first, takes it to the stage guard with the same
\* target stage and goes on to the send.
C15_AdvanceOnlyAfterDelivery ==
    [][/\ \A l \in Leads :
              users'[l].drip_stage > users[l].drip_stage =>
                  /\ scan.pc = "write"
                  /\ scan.delivered
                  /\ scan.snapshot.tg_id = l
                  /\ failed[l] = NoFailure
       /\ ~ScanGuard(TRUE) => \A l \in C15_Passed : failed[l] = NoFailure
       /\ scan'.iteration # scan.iteration =>
              \A l \in Leads :
                  failed[l] # NoFailure =>
                      \E i \in DOMAIN C15_Before : C15_Before[i].tg_id = l
       /\ (scan'.pc = "guard" /\ scan' # scan) =>
              LET l == scan'.snapshot.tg_id
              IN  failed'[l] # NoFailure =>
                      scan'.stage_to_set = failed'[l].stage_to_set
       /\ (ScanGuard(FALSE) /\ failed[scan.snapshot.tg_id] # NoFailure) =>
              scan'.pc = "send"]_vars

\* A lead whose send failed in an earlier iteration (an iteration takes a
\* lead to the send once) is at the send again, for the same target stage.
C15_Witness ==
    /\ scan.pc = "send"
    /\ scan.iteration > 1
    /\ failed[scan.snapshot.tg_id] # NoFailure
    /\ failed[scan.snapshot.tg_id].stage_to_set = scan.stage_to_set

\* C16: an exception raised while one lead is processed does not abort the
\* rest of the batch: an iteration ends only when none of the snapshots it
\* loaded and has not yet processed is due for a follow-up.
C16_BatchSurvivesException ==
    [][(scan.pc # "sleep" /\ scan'.pc = "sleep") =>
           NextSnapshot(scan, now).pc = "sleep"]_vars

\* C17: a calculated timer that fires reads the lead again and goes on to
\* send the webhook only if the lead exists and its funnel_status is
\* 'calculated' at that read; no other step takes a timer to the send.
C17_SendsOnlyIfStillCalculated ==
    [][thePurpose = "calculated" =>
          \A t \in TaskIds :
              (tasks'[t].pc = "send" /\ tasks[t].pc # "send") =>
                  /\ tasks[t].pc = "get_user"
                  /\ users[tasks[t].user_id].exists
                  /\ users[tasks[t].user_id].funnel_status = "calculated"]_vars

\* A timer is about to send for a lead that was still 'calculated', while
\* another lead has been deleted or has left 'calculated'.
C17_Witness ==
    /\ thePurpose = "calculated"
    /\ \E t \in TaskIds :
           /\ tasks[t].pc = "send"
           /\ \E l \in Leads \ {tasks[t].user_id} :
                  ~users[l].exists \/ users[l].funnel_status # "calculated"

\* A fired calculated timer meets an exception: in get_user or in the send.
C18_Raises(t) == TimerGetUser(t, TRUE) \/ TimerSend(t, TRUE)

\* C18: an exception in the action of a fired calculated timer ends that
\* timer only: the task is over, the registry has no entry for its lead any
\* more, and the tasks and registry entries of the other leads are as they
\* were, so that they still fire.
C18_ExceptionStaysInTimer ==
    [][thePurpose = "calculated" =>
          \A t \in TaskIds :
              C18_Raises(t) =>
                  LET l == tasks[t].user_id
                  IN  /\ tasks'[t] = NoTask
                      /\ active_timers'[l] = 0
                      /\ \A u \in TaskIds \ {t} : tasks'[u] = tasks[u]
                      /\ \A k \in Leads \ {l} : active_timers'[k] = active_timers[k]
                      /\ \A u \in TaskIds \ {t} :
                             (tasks[u].user_id # l /\ ENABLED TimerExpire(u)) =>
                                 (ENABLED TimerExpire(u))']_vars

\* The timer of a lead has just ended on an exception and left no registry
\* entry, while the timer of another lead is still pending and registered.
C18_Witness ==
    /\ thePurpose = "calculated"
    /\ timerError # 0
    /\ active_timers[timerError] = 0
    /\ \E u \in TaskIds :
           /\ tasks[u].pc = "sleep"
           /\ tasks[u].user_id # timerError
           /\ active_timers[tasks[u].user_id] = u

\* C19: a lead whose funnel_status, as the iteration read it, is a hotlead
\* status is sent no follow-up and has no stage advanced: the scanner never
\* has the snapshot of such a lead at the stage guard, the send or the stage
\* write.
C19_HotLeadNoFollowup ==
    scan.pc \in {"guard", "send", "write"} =>
        scan.snapshot.funnel_status \notin {"hotlead_consultation", "hotlead_delayed"}

\* The iteration has gone past lead 1, a hot lead at stage 0 whose last
\* activity is a threshold ago, and is at the stage guard of lead 2.
C19_Witness ==
    /\ scan.pc = "guard"
    /\ scan.snapshot.tg_id = 2
    /\ users[1].funnel_status = "hotlead_consultation"
    /\ users[1].drip_stage = 0
    /\ now - users[1].last_activity_at >= 60 * DRIP_24H_MIN

\* The first non-null of last_activity_at, updated_at, created_at of the row
\* evaluated, -1 when all are null.
C20_FirstNonNull ==
    IF ev.row.last_activity_at # -1 THEN ev.row.last_activity_at
    ELSE IF ev.row.updated_at # -1 THEN ev.row.updated_at
    ELSE ev.row.created_at

\* C20: the reference activity time of a lead is the first non-null of
\* last_activity_at, updated_at, created_at, in that order; a lead with no
\* timestamp or with a reference time in the future is skipped.
C20_PriorityOrder ==
    ev.pc = "done" =>
        /\ ev.activity_at = C20_FirstNonNull
        /\ (C20_FirstNonNull = -1 \/ C20_FirstNonNull > ev.utcnow) =>
               /\ ev.outcome # "evaluated"
               /\ \A cohort \in {"stalled", "tips"} : ev.targets[cohort] = 0


\* C21: once stop() has set the shutdown signal and awaits the loop, the
\* loop begins no further scan iteration: a runner that a stop() awaits
\* does not go from the top of the loop or from its wait to _load_candidates.
C21_NoIterationAfterStop ==
    [][\A i \in RunnerIds :
          (runners[i].signalled /\ runners'[i].pc = "load") =>
              runners[i].pc = "load"]_vars

\* C27: whatever the order of the start() and stop() calls, at most one
\* scanner loop is active, and a loop that waits, waits on the stop event
\* that start() created together with it.
C27_OneLoopOwnEvent ==
    /\ Cardinality({i \in RunnerIds : RunnerActive(runners[i])}) <= 1
    /\ \A i \in RunnerIds : runners[i].pc = "wait" => runners[i].event = i

\* C29: an exception raised in a scan iteration does not end the loop:
\* unless a stop() has signalled the loop, the step that handles the
\* exception of _load_candidates or of a lead takes the loop to its wait
\* for the check interval, and the end of that wait takes it to the next
\* iteration.
C29_ExceptionKeepsLoop ==
    [][\A i \in RunnerIds :
          ~runners'[i].signalled =>
              /\ ((\E n \in 0..MaxBatch : RunnerLoad(i, n, TRUE)) \/ RunnerLead(i, TRUE))
                    => runners'[i].pc = "wait"
              /\ RunnerWake(i) => runners'[i].pc = "load"]_vars
\* C22: no step of the scanner and no step of a timer task writes
\* funnel_status: every such step leaves the status of every lead as it
\* was, so a lead in a hotlead_* status stays in it until a user action.
C22_EngineKeepsStatus ==
    [][EngineStep =>
          \A l \in Leads : users'[l].funnel_status = users[l].funnel_status]_vars

\* A lead that became a hot lead while both engines were at work on it:
\* the scanner has since written its stage and its timer has fired.
C22_Witness ==
    \E l \in Leads, t \in TaskIds :
        /\ users[l].funnel_status = "hotlead_consultation"
        /\ lastWrite.tg_id = l /\ lastWrite.updated
        /\ tasks[t].user_id = l /\ tasks[t].pc = "get_user"
\* C23: a lead whose row is gone when the stage guard reads it is skipped:
\* the guard returns without raising, the scanner does not go on to the
\* send for it then or later in the iteration, and the iteration ends only
\* when none of the snapshots still queued is due.
C23_MissingLeadSkipped ==
    [][/\ (ScanGuard(FALSE) /\ ~users[scan.snapshot.tg_id].exists) =>
              /\ scan'.pc # "send"
              /\ scan.snapshot.tg_id \in scan'.missing
              /\ scan'.pc = "sleep" => NextSnapshot(scan, now).pc = "sleep"
       /\ scan'.pc = "send" => scan'.snapshot.tg_id \notin scan'.missing]_vars

\* The first lead of the batch was deleted after the load and skipped at
\* its guard, and the scanner is at the send for the second.
C23_Witness ==
    /\ scan.missing = {1}
    /\ scan.pc = "send"
    /\ scan.snapshot.tg_id = 2
\* C24: a Send of the connection-test kind passes validation and reaches
\* the endpoint: with an endpoint configured, a call with lead type 'test'
\* and a user id ends only after a session.post, and with True when that
\* post was answered with 200.
C24_TestKindReachesEndpoint ==
    (/\ send.pc = "done"
     /\ send.lead_type = "test"
     /\ send.user_id # 0
     /\ N8N_WEBHOOK_URL # "") =>
        /\ send.resps # <<>>
        /\ (send.resps[Len(send.resps)] = Response("status", 200)) => send.result
\* The statuses that neither end a Send with true nor end it as a client
\* error.
C26_Retryable(resp) ==
    ~(resp.kind = "status" /\ (resp.status = 200 \/ resp.status \in 400..499))

\* C26: with an endpoint configured a Send returns true only when its last
\* attempt got HTTP 200; an attempt answered with any other status outside
\* 4xx, 201 included, is a failed attempt: the call goes on to another
\* attempt and returns false only when the budget of its kind is used up.
C26_Only200Succeeds ==
    (N8N_WEBHOOK_URL # "" /\ send.pc # "idle") =>
        /\ (send.pc = "done" /\ send.result) =>
               /\ send.resps # <<>>
               /\ send.resps[Len(send.resps)] = Response("status", 200)
        /\ \A i \in DOMAIN send.resps :
               send.resps[i] = Response("status", 201) =>
                   /\ ~(send.pc = "done" /\ i = Len(send.resps) /\ send.result)
                   /\ i < max_attempts(send.lead_type) =>
                          (i < Len(send.resps) \/ send.pc = "sleep" \/ send.pc = "post")
        /\ (send.pc = "done" /\ send.resps # <<>>
                /\ \A i \in DOMAIN send.resps : C26_Retryable(send.resps[i])) =>
               /\ ~send.result
               /\ Len(send.resps) = max_attempts(send.lead_type)

\* A cold-lead Send got HTTP 201 on both attempts of its budget and
\* returned false.
C26_Witness ==
    /\ N8N_WEBHOOK_URL # ""
    /\ send.pc = "done"
    /\ send.lead_type = "cold"
    /\ send.resps = <<Response("status", 201), Response("status", 201)>>
    /\ ~send.result
\* C25: while the stage of a lead is not reset from outside, the scanner
\* delivers the follow-up of a given cohort and stage to it at most once:
\* no delivery repeats the follow-up last delivered to the lead.
C25_StageSentOnce ==
    [][ScanSendLogged(TRUE) =>
          lastSent[scan.snapshot.tg_id] # <<_COHORTS[scan.k], scan.stage_to_set>>]_vars
\* C28: the snapshot the scanner has in hand is eligible for the cohort it
\* is processed for and for no other one, and a follow-up is delivered only
\* to a lead that none was delivered to earlier in the same iteration.
C28_OneCohortOneMessage ==
    [][/\ scan'.pc \in {"guard", "send", "write"} =>
              \A j \in DOMAIN _COHORTS :
                  _cohort_membership(scan'.snapshot, _COHORTS[j]) <=> j = scan'.k
       /\ ScanSend(TRUE) => scan.snapshot.tg_id \notin scan.sentTo]_vars

\* A delayed cold lead got the follow-up of the tips cohort in an iteration
\* that had already delivered a follow-up of the stalled cohort to the
\* other lead.
C28_Witness ==
    /\ scan.pc = "write"
    /\ scan.delivered
    /\ _COHORTS[scan.k] = "tips"
    /\ scan.snapshot.tg_id = 2
    /\ scan.sentTo = {1, 2}
\* C30: in every call of ensure_subscription_and_continue on_success is
\* invoked at most once, under either setting of ALLOW_GATE_FALLBACK_PASS
\* and also when on_success raises.
C30_OnSuccessAtMostOnce == gate.invoked <= 1
====
